---- MODULE Spec2Model ----
(***************************************************************************)
(* Data synchronisation layer of the weather dashboard (src/src/App.tsx):  *)
(* the favorites slice, the getForecast query cache as the endpoint and    *)
(* the three useGetForecastQuery hooks configure it (RTK Query: one cache  *)
(* entry per serialized argument, request deduplication, polling per       *)
(* subscription option, removal of unused entries), the eviction effect of *)
(* WeatherDashboard and the debounced search of SearchBar.                 *)
(*                                                                         *)
(* Time: the cache clock advances in steps of Quantum seconds; timers are  *)
(* kept as the time remaining until they are due, ages as the time since   *)
(* the last successful fetch.  A due timer fires before time advances, but *)
(* any other event may be processed before it.                             *)
(***************************************************************************)
EXTENDS Integers, Sequences, FiniteSets, TLC

VARIABLES
    cities,         \* state.favorites.cities
    localStorage,   \* localStorage['favoriteCities']: <<>> absent, <<list>> present
    selectedCity,   \* WeatherDashboard: useState(null), <<>> null, <<city>> selected
    alertMessage,   \* WeatherDashboard: useState(null), <<>> null, <<city>> the city named
    queries,        \* state.weatherApi.queries: cache key -> entry
    subs,           \* current subscriptions: cache key -> set of subscribed hooks
    polls,          \* poll timer per cache key: -1 none, else seconds remaining
    removals,       \* removal timer per cache key: -1 none, else seconds remaining
    inFlight,       \* outstanding network requests per cache key
    ev,             \* what the last step did: handler, argument, keys subscribed,
                    \* keys fetched, favorites removed
    query,          \* SearchBar: useState('')
    debounce,       \* SearchBar's setTimeout: -1 none, else milliseconds remaining
    lazyArg,        \* useLazySearchCitiesQuery: <<>> untriggered, <<text>> last triggered
    searches,       \* state.weatherApi.queries of searchCities: text -> status
    searchInFlight, \* outstanding search requests per text
    searchResults,  \* the hook's data: <<>> undefined, <<answer>> a result list
    sinceChange,    \* milliseconds since the query text last changed
    lookups,        \* triggerSearch calls since the query text last changed
    burst           \* changes to a text longer than 2 that each met a running timer

favVars == <<cities, localStorage>>
viewVars == <<selectedCity, alertMessage>>
cacheVars == <<queries, subs, polls, removals, inFlight, ev>>
searchVars == <<query, debounce, lazyArg, searches, searchInFlight, searchResults,
                sinceChange, lookups, burst>>
vars == <<cities, localStorage, selectedCity, alertMessage, queries, subs, polls,
          removals, inFlight, ev, query, debounce, lazyArg, searches,
          searchInFlight, searchResults, sinceChange, lookups, burst>>

----------------------------------------------------------------------------
(* Bounds *)

Quantum == 20       \* seconds one Advance step takes
MaxAge == 80        \* ages are counted up to here
MaxFavorites == 3   \* longest favorites list an addFavorite is dispatched on
MsStep == 100       \* milliseconds one AdvanceMs step takes
MaxSince == 400     \* sinceChange is counted up to here
MaxBurst == 3       \* burst is counted up to here

(* Inputs *)

AllNames == {"Tokyo", "tokyo", "TOKYO", "London", "london", "New York", "Paris"}
Names == {"Tokyo"}                      \* the cities of the cache specification
Payloads == {18, 19}                    \* current.temp_c of a forecast answer
ErrorKinds == {"NotFound", "Transient"} \* HTTP 400 "no matching location" / network, 5xx
StoredFavorites == {<<"Tokyo">>}        \* what localStorage may hold at startup

----------------------------------------------------------------------------
(* Program constants *)

keepUnusedDataFor == 60
pollingInterval == 60000
debounceDelay == 300

----------------------------------------------------------------------------
(* Strings *)

toLowerCase(s) ==
    CASE s = "Tokyo" -> "tokyo"
      [] s = "TOKYO" -> "tokyo"
      [] s = "London" -> "london"
      [] s = "LONDON" -> "london"
      [] s = "New York" -> "new york"
      [] s = "Paris" -> "paris"
      [] OTHER -> s

Range(seq) == {seq[i] : i \in 1..Len(seq)}

----------------------------------------------------------------------------
(* Favorites slice *)

DefaultFavorites == <<"London", "New York", "Tokyo">>

loadFavorites(stored) ==
    IF stored = <<>> THEN DefaultFavorites ELSE stored[1]

\* addFavorite comparing the names as written
addFavoriteCaseSensitive(list, city) ==
    IF \E i \in 1..Len(list) : list[i] = city
    THEN list
    ELSE Append(list, city)

addFavorite(list, city) ==
    IF \E i \in 1..Len(list) : toLowerCase(list[i]) = toLowerCase(city)
    THEN list
    ELSE Append(list, city)

removeFavorite(list, city) ==
    SelectSeq(list, LAMBDA c : toLowerCase(c) # toLowerCase(city))

\* localStorage after the reducer ran: addFavorite saves only when it pushed,
\* removeFavorite always saves.
savedByAdd(store, list, city) ==
    IF addFavorite(list, city) = list THEN store ELSE <<addFavorite(list, city)>>

----------------------------------------------------------------------------
(* Cache keys: the serialized query argument.  WeatherCard passes {city},  *)
(* DetailedViewModal and WeatherDashboard pass {city, days: 7}.            *)

CardArg(city) == [city |-> city, days |-> "undefined"]
DetailArg(city) == [city |-> city, days |-> "7"]
Keys == {CardArg(n) : n \in AllNames} \cup {DetailArg(n) : n \in AllNames}

NoEntry == [status |-> "uninitialized", data |-> {}, age |-> 0, error |-> "none"]

\* pollingInterval option of each hook's subscription (0: none)
PollingOf(who) == IF who = "modal" THEN pollingInterval ELSE 0

\* The cache as one value, so that one handler can chain several cache steps.
Cache ==
    [queries |-> queries, subs |-> subs, polls |-> polls, removals |-> removals,
     inFlight |-> inFlight, subscribed |-> {}, fetched |-> {}]

\* condition without the check for a pending entry
conditionNoPendingCheck(entry, forced) ==
    IF forced THEN TRUE ELSE entry.data = {}

\* condition that refetches whatever is cached (refetchOnMountOrArgChange)
conditionAlwaysRefetch(entry, forced) ==
    entry.status # "pending"

\* queryThunk condition: a pending entry is never fetched again; a forced
\* fetch (poll) runs; an entry that was ever fulfilled is served from cache.
condition(entry, forced) ==
    IF entry.status = "pending" THEN FALSE
    ELSE IF forced THEN TRUE
    ELSE entry.data = {}

Min(S) == CHOOSE x \in S : \A y \in S : x <= y

findLowestPollingInterval(subscribers) ==
    LET finite == {PollingOf(w) : w \in subscribers} \ {0}
    IN IF finite = {} THEN 0 ELSE Min(finite)

startNextPoll(c, k) ==
    IF c.queries[k].status = "uninitialized" THEN c
    ELSE IF findLowestPollingInterval(c.subs[k]) = 0 THEN c
    ELSE [c EXCEPT !.polls[k] = findLowestPollingInterval(c.subs[k]) \div 1000]

\* updatePollingInterval that leaves a running timer when no subscriber polls
updatePollingIntervalNoCleanup(c, k) ==
    IF c.queries[k].status = "uninitialized" THEN c
    ELSE IF findLowestPollingInterval(c.subs[k]) = 0 THEN c
    ELSE IF c.polls[k] = -1 THEN startNextPoll(c, k)
    ELSE c

updatePollingInterval(c, k) ==
    IF c.queries[k].status = "uninitialized" THEN c
    ELSE IF findLowestPollingInterval(c.subs[k]) = 0
         THEN [c EXCEPT !.polls[k] = -1]
    ELSE IF c.polls[k] = -1
            \/ findLowestPollingInterval(c.subs[k]) \div 1000 < c.polls[k]
         THEN startNextPoll(c, k)
    ELSE c

\* cacheCollection: (re)start the removal timer when nobody is subscribed
handleUnsubscribe(c, k) ==
    IF c.subs[k] = {} THEN [c EXCEPT !.removals[k] = keepUnusedDataFor] ELSE c

\* the network request of queryThunk: pending reducer, one more request
startFetch(c, k) ==
    [c EXCEPT !.queries[k].status = "pending",
              !.inFlight[k] = @ + 1,
              !.fetched = @ \cup {k}]

\* a hook subscribes: initiate(arg, {subscribe: true, forceRefetch: false})
initiate(c, k, who) ==
    LET c1 == [c EXCEPT !.subs[k] = @ \cup {who}, !.subscribed = @ \cup {k}]
        c2 == IF condition(c.queries[k], FALSE) THEN startFetch(c1, k) ELSE c1
    IN updatePollingInterval(c2, k)

\* a hook unsubscribes (unmount, skip, argument change)
unsubscribe(c, k, who) ==
    IF who \notin c.subs[k] THEN c
    ELSE handleUnsubscribe(
             updatePollingInterval([c EXCEPT !.subs[k] = @ \ {who}], k), k)

\* queryThunk.fulfilled
fulfilled(c, k, payload) ==
    handleUnsubscribe(
        startNextPoll(
            [c EXCEPT !.queries[k] = [status |-> "fulfilled", data |-> {payload},
                                      age |-> 0, error |-> "none"],
                      !.inFlight[k] = @ - 1], k), k)

\* queryThunk.rejected: data and fulfilledTimeStamp stay
rejected(c, k, kind) ==
    handleUnsubscribe(
        startNextPoll(
            [c EXCEPT !.queries[k].status = "rejected",
                      !.queries[k].error = kind,
                      !.inFlight[k] = @ - 1], k), k)

\* the poll timer's callback: refetch (forced), then the next timer
pollTick(c, k) ==
    startNextPoll(
        IF condition(c.queries[k], TRUE) THEN startFetch(c, k) ELSE c, k)

\* the removal timer's callback: abort the running request, drop the entry
removalTimeout(c, k) ==
    IF c.subs[k] = {}
    THEN [c EXCEPT !.queries[k] = NoEntry, !.inFlight[k] = 0, !.removals[k] = -1]
    ELSE [c EXCEPT !.removals[k] = -1]

----------------------------------------------------------------------------
(* What the hooks return *)

isError(entry) == entry.status = "rejected"
isLoading(entry) == entry.status = "pending" /\ entry.data = {}

----------------------------------------------------------------------------
(* Rendering: Dashboard keeps one WeatherCard per favorite *)

RECURSIVE unmountCards(_, _)
unmountCards(c, gone) ==
    IF gone = {} THEN c
    ELSE LET n == CHOOSE x \in gone : TRUE
         IN unmountCards(unsubscribe(c, CardArg(n), "card"), gone \ {n})

RECURSIVE mountCards(_, _)
mountCards(c, new) ==
    IF new = {} THEN c
    ELSE LET n == CHOOSE x \in new : TRUE
         IN mountCards(initiate(c, CardArg(n), "card"), new \ {n})

renderCards(c, old, new) ==
    mountCards(unmountCards(c, Range(old) \ Range(new)), Range(new) \ Range(old))

\* the step's cache value becomes the next state; ev records the step
Commit(c, op, arg, list) ==
    /\ cities' = list
    /\ queries' = c.queries
    /\ subs' = c.subs
    /\ polls' = c.polls
    /\ removals' = c.removals
    /\ inFlight' = c.inFlight
    /\ ev' = [op |-> op, arg |-> arg, subscribed |-> c.subscribed,
              fetched |-> c.fetched, removed |-> Range(cities) \ Range(list)]

EmptyCache ==
    [queries |-> [k \in Keys |-> NoEntry], subs |-> [k \in Keys |-> {}],
     polls |-> [k \in Keys |-> -1], removals |-> [k \in Keys |-> -1],
     inFlight |-> [k \in Keys |-> 0], subscribed |-> {}, fetched |-> {}]

----------------------------------------------------------------------------
(* Search: texts typed, lookups, provider answers *)

Texts == {"", "Pa", "Par", "Ber"}
textLength(t) == Len(t)
LookupTexts == {t \in Texts : textLength(t) > 2}
Answers == {{}, {"Paris"}}              \* city names of a search answer

NoSearch == [status |-> "uninitialized", data |-> {}]

\* After the first render: the favorites are loaded and every card subscribed.
InitWith(stored) ==
    /\ cities = loadFavorites(stored)
    /\ localStorage = stored
    /\ selectedCity = <<>>
    /\ alertMessage = <<>>
    /\ LET c == mountCards(EmptyCache, Range(loadFavorites(stored)))
       IN /\ queries = c.queries
          /\ subs = c.subs
          /\ polls = c.polls
          /\ removals = c.removals
          /\ inFlight = c.inFlight
          /\ ev = [op |-> "mount", arg |-> <<>>, subscribed |-> c.subscribed,
                   fetched |-> c.fetched, removed |-> {}]
    /\ query = ""
    /\ debounce = -1
    /\ lazyArg = <<>>
    /\ searches = [t \in LookupTexts |-> NoSearch]
    /\ searchInFlight = [t \in LookupTexts |-> 0]
    /\ searchResults = <<>>
    /\ sinceChange = 0
    /\ lookups = 0
    /\ burst = 0

Init == \E s \in StoredFavorites : InitWith(<<s>>)

\* localStorage holds nothing: the default favorites
InitDefault == InitWith(<<>>)

----------------------------------------------------------------------------
\* the eviction effect without its setSelectedCity(null)
evictionKeepSelected(c, city, op, arg) ==
    /\ alertMessage' = <<city>>
    /\ localStorage' = <<removeFavorite(cities, city)>>
    /\ selectedCity' = <<city>>
    /\ Commit(renderCards(c, cities, removeFavorite(cities, city)),
              op, arg, removeFavorite(cities, city))

\* the eviction effect without its removeFavorite
evictionNoRemove(c, city, op, arg) ==
    /\ alertMessage' = <<city>>
    /\ localStorage' = localStorage
    /\ selectedCity' = <<>>
    /\ Commit(unsubscribe(c, DetailArg(city), "dashboard"), op, arg, cities)

(* The eviction effect of WeatherDashboard, run with isError true and a     *)
(* city selected: notice, removeFavorite, selection cleared; the rerender   *)
(* unsubscribes the dashboard's query (skip) and unmounts the card.         *)

evictionEffect(c, city, op, arg) ==
    /\ alertMessage' = <<city>>
    /\ localStorage' = <<removeFavorite(cities, city)>>
    /\ selectedCity' = <<>>
    /\ Commit(renderCards(unsubscribe(c, DetailArg(city), "dashboard"),
                          cities, removeFavorite(cities, city)),
              op, arg, removeFavorite(cities, city))

----------------------------------------------------------------------------
(* Actions of the forecast cache and the dashboard *)

\* a forecast request is answered with a forecast
FetchFulfilled(k, payload) ==
    /\ inFlight[k] > 0
    /\ Commit(fulfilled(Cache, k, payload), "fulfilled", k, cities)
    /\ UNCHANGED <<localStorage, viewVars, searchVars>>

\* a forecast request fails; when it is the selected city's query the modal
\* is unmounted and the eviction effect runs
FetchRejected(k, kind) ==
    /\ inFlight[k] > 0
    /\ IF selectedCity # <<>> /\ k = DetailArg(selectedCity[1])
       THEN evictionEffect(unsubscribe(rejected(Cache, k, kind), k, "modal"),
                           selectedCity[1], "rejected", k)
       ELSE /\ Commit(rejected(Cache, k, kind), "rejected", k, cities)
            /\ UNCHANGED <<localStorage, viewVars>>
    /\ UNCHANGED searchVars

\* handleCityClick from a rendered card (no overlay above it)
CardClick(city) ==
    /\ city \in Range(cities)
    /\ selectedCity = <<>>
    /\ alertMessage = <<>>
    /\ queries[CardArg(city)].data # {}
    /\ queries[CardArg(city)].error = "none"
    /\ IF isError(queries[DetailArg(city)])
       THEN evictionEffect(initiate(Cache, DetailArg(city), "dashboard"), city,
                           "handleCityClick", city)
       ELSE /\ selectedCity' = <<city>>
            /\ Commit(initiate(initiate(Cache, DetailArg(city), "modal"),
                               DetailArg(city), "dashboard"),
                      "handleCityClick", city, cities)
            /\ UNCHANGED <<localStorage, alertMessage>>
    /\ UNCHANGED searchVars

\* handleCloseModal from the rendered modal
CloseModal ==
    /\ selectedCity # <<>>
    /\ queries[DetailArg(selectedCity[1])].data # {}
    /\ ~isError(queries[DetailArg(selectedCity[1])])
    /\ selectedCity' = <<>>
    /\ Commit(unsubscribe(unsubscribe(Cache, DetailArg(selectedCity[1]), "modal"),
                          DetailArg(selectedCity[1]), "dashboard"),
              "handleCloseModal", selectedCity[1], cities)
    /\ UNCHANGED <<localStorage, alertMessage, searchVars>>

\* the alert's OK button
CloseAlert ==
    /\ alertMessage # <<>>
    /\ alertMessage' = <<>>
    /\ Commit(Cache, "closeAlert", alertMessage[1], cities)
    /\ UNCHANGED <<localStorage, selectedCity, searchVars>>

\* the store and the view after dispatch(removeFavorite(name))
dispatchRemoveFavorite(name, op) ==
    /\ localStorage' = <<removeFavorite(cities, name)>>
    /\ Commit(renderCards(Cache, cities, removeFavorite(cities, name)),
              op, name, removeFavorite(cities, name))

\* the store and the view after dispatch(addFavorite(name))
dispatchAddFavorite(name, op) ==
    /\ localStorage' = savedByAdd(localStorage, cities, name)
    /\ Commit(renderCards(Cache, cities, addFavorite(cities, name)),
              op, name, addFavorite(cities, name))

\* handleRemove of a card that shows data or an error
RemoveClick(city) ==
    /\ city \in Range(cities)
    /\ ~isLoading(queries[CardArg(city)])
    /\ dispatchRemoveFavorite(city, "handleRemove")
    /\ UNCHANGED <<viewVars, searchVars>>

\* setQuery whose effect keeps a running timer instead of restarting it
setQueryNoRestart(text) ==
    IF text = query
    THEN UNCHANGED <<query, debounce, sinceChange, lookups, burst>>
    ELSE /\ query' = text
         /\ debounce' = IF textLength(text) <= 2 THEN -1
                        ELSE IF debounce = -1 THEN debounceDelay ELSE debounce
         /\ sinceChange' = 0
         /\ lookups' = 0
         /\ burst' = IF textLength(text) <= 2 THEN 0
                     ELSE IF debounce = -1 THEN 1
                     ELSE IF burst < MaxBurst THEN burst + 1 ELSE MaxBurst

\* setQuery whose effect clears the timer only to start another
setQueryKeepTimer(text) ==
    IF text = query
    THEN UNCHANGED <<query, debounce, sinceChange, lookups, burst>>
    ELSE /\ query' = text
         /\ debounce' = IF textLength(text) > 2 THEN debounceDelay ELSE debounce
         /\ sinceChange' = 0
         /\ lookups' = 0
         /\ burst' = IF textLength(text) <= 2 THEN 0
                     ELSE IF debounce = -1 THEN 1
                     ELSE IF burst < MaxBurst THEN burst + 1 ELSE MaxBurst

\* setQuery and the debounce effect: the old timer is cleared, a text longer
\* than 2 characters gets a new one
setQuery(text) ==
    IF text = query
    THEN UNCHANGED <<query, debounce, sinceChange, lookups, burst>>
    ELSE /\ query' = text
         /\ debounce' = IF textLength(text) > 2 THEN debounceDelay ELSE -1
         /\ sinceChange' = 0
         /\ lookups' = 0
         /\ burst' = IF textLength(text) <= 2 THEN 0
                     ELSE IF debounce = -1 THEN 1
                     ELSE IF burst < MaxBurst THEN burst + 1 ELSE MaxBurst

isAlreadyFavorite(name) ==
    \E i \in 1..Len(cities) : toLowerCase(cities[i]) = toLowerCase(name)

\* handleAddFavorite of a result row
handleAddFavorite(name) ==
    /\ dispatchAddFavorite(name, "handleAddFavorite")
    /\ setQuery("")
    /\ UNCHANGED <<viewVars, lazyArg, searches, searchInFlight, searchResults>>

\* the Add button of a result row naming `name`, whatever search showed it
AddClick(name) ==
    /\ Len(cities) < MaxFavorites
    /\ ~isAlreadyFavorite(name)
    /\ handleAddFavorite(name)

\* a due poll timer fires
PollTick(k) ==
    /\ polls[k] = 0
    /\ Commit(pollTick(Cache, k), "pollTick", k, cities)
    /\ UNCHANGED <<localStorage, viewVars, searchVars>>

\* a due removal timer fires
RemovalTimeout(k) ==
    /\ removals[k] = 0
    /\ Commit(removalTimeout(Cache, k), "removalTimeout", k, cities)
    /\ UNCHANGED <<localStorage, viewVars, searchVars>>

Elapse(t, step) == IF t = -1 THEN -1 ELSE IF t > step THEN t - step ELSE 0
Older(a, step, max) == IF a + step > max THEN max ELSE a + step

\* Quantum seconds pass; no timer is due
Advance ==
    /\ \A k \in Keys : polls[k] # 0 /\ removals[k] # 0
    /\ debounce = -1
    /\ polls' = [k \in Keys |-> Elapse(polls[k], Quantum)]
    /\ removals' = [k \in Keys |-> Elapse(removals[k], Quantum)]
    /\ queries' = [k \in Keys |->
                     IF queries[k].data = {} THEN queries[k]
                     ELSE [queries[k] EXCEPT !.age = Older(@, Quantum, MaxAge)]]
    /\ ev' = [op |-> "advance", arg |-> <<>>, subscribed |-> {}, fetched |-> {},
              removed |-> {}]
    /\ UNCHANGED <<favVars, viewVars, subs, inFlight, searchVars>>

Next ==
    \/ \E k \in Keys, p \in Payloads : FetchFulfilled(k, p)
    \/ \E k \in Keys, e \in ErrorKinds : FetchRejected(k, e)
    \/ \E n \in Names : CardClick(n)
    \/ CloseModal
    \/ CloseAlert
    \/ \E n \in Names : RemoveClick(n)
    \/ \E n \in Names : AddClick(n)
    \/ \E k \in Keys : PollTick(k)
    \/ \E k \in Keys : RemovalTimeout(k)
    \/ Advance

Spec == Init /\ [][Next]_vars

----------------------------------------------------------------------------
(* Actions of the search bar *)

\* the step leaves the forecast cache alone; ev records the step
Note(op, arg) ==
    /\ ev' = [op |-> op, arg |-> arg, subscribed |-> {}, fetched |-> {},
              removed |-> {}]
    /\ UNCHANGED <<queries, subs, polls, removals, inFlight>>

\* onChange of the input
OnChange(text) ==
    /\ text # query
    /\ setQuery(text)
    /\ Note("onChange", text)
    /\ UNCHANGED <<favVars, viewVars, lazyArg, searches, searchInFlight,
                   searchResults>>

\* the debounce timer's callback, triggerSearch(query): the lazy hook drops
\* its subscription, starts a forced request unless one is pending for the
\* text, and follows the text
DebounceFire ==
    /\ debounce = 0
    /\ debounce' = -1
    /\ lookups' = lookups + 1
    /\ lazyArg' = <<query>>
    /\ IF condition(searches[query], TRUE)
       THEN /\ searches' = [searches EXCEPT ![query].status = "pending"]
            /\ searchInFlight' = [searchInFlight EXCEPT ![query] = @ + 1]
       ELSE UNCHANGED <<searches, searchInFlight>>
    /\ Note("triggerSearch", query)
    /\ UNCHANGED <<favVars, viewVars, query, searchResults, sinceChange, burst>>

\* the hook's data if every answer were shown, whatever text it is for
deliveredAny(text, answer) == <<answer>>

\* the hook's data once the entry of `text` holds `answer`: the entry of
\* the text last triggered, otherwise what was shown before
delivered(text, answer) ==
    IF lazyArg = <<text>> THEN <<answer>> ELSE searchResults

\* a search request is answered
SearchFulfilled(text, names) ==
    /\ searchInFlight[text] > 0
    /\ searches' = [searches EXCEPT
                      ![text] = [status |-> "fulfilled",
                                 data |-> {[arg |-> text, names |-> names]}]]
    /\ searchInFlight' = [searchInFlight EXCEPT ![text] = @ - 1]
    /\ searchResults' = delivered(text, [arg |-> text, names |-> names])
    /\ Note("searchFulfilled", text)
    /\ UNCHANGED <<favVars, viewVars, query, debounce, lazyArg, sinceChange,
                   lookups, burst>>

\* a search request fails
SearchRejected(text) ==
    /\ searchInFlight[text] > 0
    /\ searches' = [searches EXCEPT ![text].status = "rejected"]
    /\ searchInFlight' = [searchInFlight EXCEPT ![text] = @ - 1]
    /\ Note("searchRejected", text)
    /\ UNCHANGED <<favVars, viewVars, query, debounce, lazyArg, searchResults,
                   sinceChange, lookups, burst>>

\* the entry of a text the hook no longer follows is removed once unused for
\* keepUnusedDataFor (the default); its running request is aborted
SearchRemoval(text) ==
    /\ lazyArg # <<text>>
    /\ searches[text].status # "uninitialized"
    /\ searches' = [searches EXCEPT ![text] = NoSearch]
    /\ searchInFlight' = [searchInFlight EXCEPT ![text] = 0]
    /\ Note("searchRemoval", text)
    /\ UNCHANGED <<favVars, viewVars, query, debounce, lazyArg, searchResults,
                   sinceChange, lookups, burst>>

\* the Add button of a row of the result list shown
AddResultClick(name) ==
    /\ searchResults # <<>>
    /\ name \in searchResults[1].names
    /\ AddClick(name)

\* MsStep milliseconds pass; the debounce timer is not due
AdvanceMs ==
    /\ debounce # 0
    /\ debounce' = Elapse(debounce, MsStep)
    /\ sinceChange' = Older(sinceChange, MsStep, MaxSince)
    /\ Note("advanceMs", <<>>)
    /\ UNCHANGED <<favVars, viewVars, query, lazyArg, searches, searchInFlight,
                   searchResults, lookups, burst>>

NextSearch ==
    \/ \E t \in Texts : OnChange(t)
    \/ DebounceFire
    \/ \E t \in LookupTexts, a \in Answers : SearchFulfilled(t, a)
    \/ \E t \in LookupTexts : SearchRejected(t)
    \/ \E t \in LookupTexts : SearchRemoval(t)
    \/ \E n \in AllNames : AddResultClick(n)
    \/ AdvanceMs

SpecSearch == Init /\ [][NextSearch]_vars

----------------------------------------------------------------------------
(* The favorites reducers alone, from the default favorites *)

FavNames == {"London", "london", "Tokyo", "TOKYO", "Paris"}

DispatchAddFavorite(name) ==
    /\ Len(addFavorite(cities, name)) <= MaxFavorites
    /\ dispatchAddFavorite(name, "addFavorite")
    /\ UNCHANGED <<viewVars, searchVars>>

DispatchRemoveFavorite(name) ==
    /\ dispatchRemoveFavorite(name, "removeFavorite")
    /\ UNCHANGED <<viewVars, searchVars>>

NextFav ==
    \/ \E n \in FavNames : DispatchAddFavorite(n)
    \/ \E n \in FavNames : DispatchRemoveFavorite(n)

SpecFav == InitDefault /\ [][NextFav]_vars

----------------------------------------------------------------------------
(* The forecast cache under two spellings of one city: localStorage holds   *)
(* "tokyo", the search offers "Tokyo" once "tokyo" was removed; every       *)
(* request is answered.                                                     *)

CaseNames == {"tokyo", "Tokyo"}

InitCase == InitWith(<<<<"tokyo">>>>)

NextCase ==
    \/ \E k \in Keys, p \in Payloads : FetchFulfilled(k, p)
    \/ \E n \in CaseNames : CardClick(n)
    \/ CloseModal
    \/ RemoveClick("tokyo")
    \/ AddClick("Tokyo")
    \/ \E k \in Keys : PollTick(k)
    \/ \E k \in Keys : RemovalTimeout(k)
    \/ Advance

SpecCase == InitCase /\ [][NextCase]_vars

----------------------------------------------------------------------------
(* Properties *)

Ready(entry) == entry.status = "fulfilled"
Stale(entry) == entry.age > keepUnusedDataFor
hasFavorite(list, name) ==
    \E i \in 1..Len(list) : toLowerCase(list[i]) = toLowerCase(name)

\* C1: a subscribe(k) that finds a fetch for k unresolved issues no fetch, and
\* no cache key ever has more than one request in flight.
C1_OneRequestPerKey ==
    /\ [](\A k \in Keys : inFlight[k] <= 1)
    /\ [][\A k \in ev'.subscribed :
            queries[k].status = "pending" => inFlight'[k] = inFlight[k]]_vars

\* the dashboard's and the modal's query of the selected city share the one
\* request the click started
C1_Witness ==
    /\ ev.op = "handleCityClick"
    /\ \E k \in ev.fetched :
         /\ subs[k] = {"modal", "dashboard"}
         /\ queries[k].status = "pending"
         /\ inFlight[k] = 1

\* C2: a subscribe(k) that finds a Ready entry fetched at most 60 seconds
\* ago issues no fetch and the subscriber sees the cached payload.
C2_FreshServedFromCache ==
    [][\A k \in ev'.subscribed :
         (Ready(queries[k]) /\ ~Stale(queries[k]))
         => /\ k \notin ev'.fetched
            /\ inFlight'[k] = inFlight[k]
            /\ Ready(queries'[k])
            /\ queries'[k].data = queries[k].data]_vars

C2_Witness ==
    /\ ev.op = "handleCityClick"
    /\ ev.fetched = {}
    /\ \E k \in ev.subscribed :
         /\ Ready(queries[k])
         /\ queries[k].age > 0
         /\ ~Stale(queries[k])
         /\ subs[k] = {"modal", "dashboard"}

\* C3: a subscribe(k) that finds a cached entry fetched more than 60 seconds
\* ago (and not due for removal at that instant) issues exactly one fetch
\* for k.
C3_StaleRefetched ==
    [][\A k \in ev'.subscribed :
         (Ready(queries[k]) /\ Stale(queries[k]) /\ removals[k] # 0)
         => /\ k \in ev'.fetched
            /\ inFlight'[k] = 1]_vars

\* C4: every key with a subscriber has a refresh timer running.
C4_PolledWhileSubscribed ==
    \A k \in Keys :
        (subs[k] # {} /\ Ready(queries[k])) => polls[k] # -1

\* C5: a key without subscribers has no poll timer, and a fetch for a key is
\* issued only by a subscribe or while the key has a subscriber.
C5_NoPollWithoutSubscriber ==
    /\ [](\A k \in Keys : subs[k] = {} => polls[k] = -1)
    /\ [][\A k \in ev'.fetched : k \in ev'.subscribed \/ subs[k] # {}]_vars

\* the detail view was closed: its query had a timer, now it has none
C5_Witness ==
    /\ ev.op = "handleCloseModal"
    /\ subs[DetailArg(ev.arg)] = {}
    /\ Ready(queries[DetailArg(ev.arg)])
    /\ polls[DetailArg(ev.arg)] = -1
    /\ removals[DetailArg(ev.arg)] = keepUnusedDataFor

remaining(since) == IF since < debounceDelay THEN debounceDelay - since ELSE 0

\* C6: after a change to a text of 3 characters or more the one timer runs
\* from that change (every change restarts it), no lookup is dispatched
\* before it is due, and once due exactly one lookup is dispatched, for the
\* text of the last change.
C6_Debounce ==
    /\ lookups <= 1
    /\ textLength(query) > 2 =>
         IF lookups = 0
         THEN debounce = remaining(sinceChange)
         ELSE /\ debounce = -1
              /\ sinceChange >= debounceDelay
              /\ lazyArg = <<query>>
    /\ ev.op = "triggerSearch" => (ev.arg = query /\ lookups = 1)

\* several changes, each within the quiet period of the one before, then the
\* lookup for the last text
C6_Witness ==
    /\ ev.op = "triggerSearch"
    /\ burst >= 3
    /\ lookups = 1
    /\ lazyArg = <<query>>
    /\ searchInFlight[query] = 1

\* C7: the delivered result set only ever changes to the answer of the
\* lookup dispatched last; the answer of a superseded lookup is discarded.
C7_OnlyLatestDelivered ==
    [][searchResults' # searchResults
        => /\ searchResults' # <<>>
           /\ lazyArg' = <<searchResults'[1].arg>>]_vars

\* the newer lookup's answer is shown, then the superseded lookup's answer
\* arrives and is not shown
C7_Witness ==
    /\ ev.op = "searchFulfilled"
    /\ lazyArg # <<ev.arg>>
    /\ searchResults # <<>>
    /\ lazyArg = <<searchResults[1].arg>>
    /\ searches[ev.arg].status = "fulfilled"

\* C8 as stated: a NotFound failure of the forecast fetch of any favorite
\* removes it from the favorites.
C8_AnyNotFoundEvicts ==
    [][(ev'.op = "rejected" /\ queries'[ev'.arg].error = "NotFound"
        /\ hasFavorite(cities, ev'.arg.city))
       => ~hasFavorite(cities', ev'.arg.city)]_vars

\* C8 amended: a NotFound failure of the selected city's {city, days: 7}
\* query removes the city from the favorites; a NotFound failure of any
\* other forecast query leaves the favorites unchanged.
C8_FocusedNotFoundEvicts ==
    [][(ev'.op = "rejected" /\ queries'[ev'.arg].error = "NotFound")
       => IF selectedCity # <<>> /\ ev'.arg = DetailArg(selectedCity[1])
          THEN ~hasFavorite(cities', selectedCity[1])
          ELSE cities' = cities]_vars

C8_Witness ==
    /\ ev.op = "rejected"
    /\ ev.arg.days = "7"
    /\ queries[ev.arg].error = "NotFound"
    /\ ev.arg.city \in ev.removed
    /\ alertMessage = <<ev.arg.city>>

\* C9: a Transient failure changes neither the favorites nor the selection
\* and emits no notice.
C9_TransientNeverEvicts ==
    [][(ev'.op = "rejected" /\ queries'[ev'.arg].error = "Transient")
       => /\ cities' = cities
          /\ selectedCity' = selectedCity
          /\ alertMessage' = alertMessage]_vars

NoCaseDuplicates ==
    \A i, j \in 1..Len(cities) :
        toLowerCase(cities[i]) = toLowerCase(cities[j]) => i = j

\* C10: addFavorite of a name already present up to case and removeFavorite
\* of a name absent up to case leave the favorites as they are, and no two
\* favorites are equal up to case.
C10_FavoritesIdempotent ==
    /\ []NoCaseDuplicates
    /\ [][/\ (ev'.op = "addFavorite" /\ hasFavorite(cities, ev'.arg))
             => cities' = cities
          /\ (ev'.op = "removeFavorite" /\ ~hasFavorite(cities, ev'.arg))
             => cities' = cities]_vars

\* "london" was added while "London" is a favorite
C10_Witness ==
    /\ ev.op = "addFavorite"
    /\ ev.arg = "london"
    /\ ev.removed = {}
    /\ "London" \in Range(cities)
    /\ "london" \notin Range(cities)

SameLocation(k1, k2) ==
    toLowerCase(k1.city) = toLowerCase(k2.city) /\ k1.days = k2.days

\* C11: names differing only in case are one cache entry: a hook subscribed
\* under one spelling reads the payload cached under the other, with no
\* entry or fetch of its own.
C11_CaseInsensitiveKeys ==
    \A k1, k2 \in Keys :
        (SameLocation(k1, k2) /\ Ready(queries[k1]) /\ subs[k2] # {})
        => /\ queries[k2].data = queries[k1].data
           /\ inFlight[k2] = 0

\* C12 as stated: while the text is shorter than 3 characters no lookup is
\* scheduled or in flight and no result list is delivered.
C12_ShortTextClears ==
    textLength(query) <= 2
    => /\ debounce = -1
       /\ \A t \in LookupTexts : searchInFlight[t] = 0
       /\ searchResults = <<>>

\* C12 amended: while the text is shorter than 3 characters no lookup is
\* scheduled and none is dispatched; the change to such a text leaves the
\* requests in flight, the text the hook follows and the delivered result
\* list as they were.
C12_ShortTextCancelsTimerOnly ==
    /\ [](textLength(query) <= 2 => (debounce = -1 /\ lookups = 0))
    /\ [][(query' # query /\ textLength(query') <= 2)
          => /\ searchResults' = searchResults
             /\ searchInFlight' = searchInFlight
             /\ searches' = searches
             /\ lazyArg' = lazyArg]_vars

\* the text was shortened while one lookup's answer is shown and another
\* lookup is in flight
C12_Witness ==
    /\ ev.op = "onChange"
    /\ textLength(query) <= 2
    /\ query # ""
    /\ debounce = -1
    /\ searchResults # <<>>
    /\ \E t \in LookupTexts : searchInFlight[t] = 1 /\ lazyArg = <<t>>

\* the step emits the notice of the eviction effect
Evicts == alertMessage = <<>> /\ alertMessage' # <<>>

====
